---- MODULE Spec2Model ----
(***************************************************************************)
(* Model of the Discord/OpenAI relay bot: the sliding-window RateLimiter   *)
(* (src/utils/rate_limiter.py), the retrying OpenAIClient                  *)
(* (src/utils/openai_client.py) and the on_message handler with its        *)
(* per-user conversation contexts (src/bot.py).                            *)
(*                                                                         *)
(* Time: time.time() is a float number of seconds.  The model counts time  *)
(* in ticks, TicksPerSecond ticks to a second, so that the int() of        *)
(* get_wait_time is a real truncation and not the identity.                *)
(***************************************************************************)
EXTENDS Integers, Sequences, FiniteSets, TLC

\* ------------------------------------------------------------------ bounds

\* RateLimiter(max_requests, time_window): constructor parameters.  bot.py
\* builds RateLimiter() with the defaults (10, 60); the model keeps the
\* window of 60 s and instantiates the request budget small.
max_requests == 2
time_window == 60
\* self.cleanup_interval, seconds
cleanup_interval == 300

\* resolution of the clock: ticks per second
TicksPerSecond == 2
\* number of ticks after each base instant at which the clock may be read
Jitter == 1

\* config.max_context_length and config.max_message_length (environment
\* settings, defaults 10 and 2000), instantiated small
max_context_length == 1
max_message_length == 2

\* OpenAIClient.max_retries and OpenAIClient.retry_delay (seconds)
max_retries == 3
retry_delay == 1

\* number of inbound messages the model lets arrive
MaxMsgs == 3
\* longest messages argument handed to the client under test
MaxClientLen == 2

\* identities (message.author.id); BotUser is bot.user
Users == {1, 2}
BotUser == 0
\* the handler invocations that may be in flight together
Handlers == {1, 2}

\* seconds -> ticks
Ticks(seconds) == seconds * TicksPerSecond

\* The instants at which the model reads the clock: a few ticks at and after
\* the start, one window later, one window before the first sweep is due,
\* and the instant the first sweep is due.
BaseInstants == {0, time_window, cleanup_interval - time_window, cleanup_interval}
Times == {Ticks(b) + j : b \in BaseInstants, j \in 0..Jitter}

\* ------------------------------------------------------------------- state

VARIABLES
    now,            \* the value time.time() returns, in ticks
    user_requests,  \* RateLimiter.user_requests: dict user_id -> deque of timestamps
    last_cleanup,   \* RateLimiter.last_cleanup
    admitted,       \* observation: per user, the times at which is_allowed returned True
                    \*   (entries older than one window before now are forgotten)
    reset_state,    \* observation: per user "never" reset, reset "pending" (no is_allowed
                    \*   since the reset) or reset "used" (is_allowed called since)
    unswept_requests \* reference: user_requests of a second RateLimiter that receives the
                    \*   same calls at the same times and never runs its sweep

VARIABLES
    user_contexts,  \* bot.py user_contexts: dict user_id -> list of messages
    pc,             \* per handler invocation: where on_message (or the command) is suspended
    msg,            \* per handler invocation: the author and serial number of its message
    tmp,            \* per handler invocation: the local it carries across the suspension
                    \*   (wait_time, error, error_message or response_text)
    next_id,        \* number of messages arrived so far (serial number of the next one)
    api_calls,      \* observation: number of get_chat_response invocations so far
    streak          \* observation: per user, the serial numbers of the latest turns (at
                    \*   most max_context_length of them) that succeeded one after the
                    \*   other, nothing else touching the user's history in between

VARIABLES
    c_messages,     \* OpenAIClient under test: the messages argument
    c_script,       \* OpenAIClient under test: what the remote endpoint does on each attempt
    c_result        \* OpenAIClient under test: what get_chat_response returned

limiter_vars == <<now, user_requests, last_cleanup, admitted, reset_state, unswept_requests>>
bot_vars == <<user_contexts, pc, msg, tmp, next_id, api_calls, streak>>
client_vars == <<c_messages, c_script, c_result>>
vars == <<now, user_requests, last_cleanup, admitted, reset_state, unswept_requests,
          user_contexts, pc, msg, tmp, next_id, api_calls, streak,
          c_messages, c_script, c_result>>

\* ------------------------------------------------------------ RateLimiter

\* variant of PopExpired that also drops a timestamp exactly one window old
RECURSIVE PopExpiredInclusive(_, _)
PopExpiredInclusive(queue, cutoff_time) ==
    IF queue # <<>> /\ Head(queue) <= cutoff_time
    THEN PopExpiredInclusive(Tail(queue), cutoff_time)
    ELSE queue

\* variant of PopExpired that drops at most one timestamp (an if for the while)
PopExpiredOnce(queue, cutoff_time) ==
    IF queue # <<>> /\ Head(queue) < cutoff_time THEN Tail(queue) ELSE queue

\* while user_queue and user_queue[0] < cutoff_time: user_queue.popleft()
RECURSIVE PopExpired(_, _)
PopExpired(queue, cutoff_time) ==
    IF queue # <<>> /\ Head(queue) < cutoff_time
    THEN PopExpired(Tail(queue), cutoff_time)
    ELSE queue

\* self.user_requests[user_id] on a defaultdict(deque): a missing key is
\* inserted with an empty deque
Touch(reqs, user_id) ==
    IF user_id \in DOMAIN reqs
    THEN reqs
    ELSE [u \in DOMAIN reqs \cup {user_id} |-> IF u = user_id THEN <<>> ELSE reqs[u]]

\* variant of cleanup_if_needed that removes every user whose oldest
\* timestamp has left the window
CleanupDropsByOldest(reqs, lc, current_time) ==
    IF current_time - lc < Ticks(cleanup_interval)
    THEN [user_requests |-> reqs, last_cleanup |-> lc]
    ELSE LET cutoff_time == current_time - Ticks(time_window)
             users_to_remove == {u \in DOMAIN reqs :
                                    reqs[u] = <<>> \/ Head(reqs[u]) < cutoff_time}
         IN  [user_requests |-> [u \in DOMAIN reqs \ users_to_remove |-> reqs[u]],
              last_cleanup |-> current_time]

\* variant of cleanup_if_needed whose sweep also drops a timestamp exactly
\* one window old
CleanupInclusive(reqs, lc, current_time) ==
    IF current_time - lc < Ticks(cleanup_interval)
    THEN [user_requests |-> reqs, last_cleanup |-> lc]
    ELSE LET cutoff_time == current_time - Ticks(time_window)
             popped == [u \in DOMAIN reqs |-> PopExpiredInclusive(reqs[u], cutoff_time)]
             users_to_remove == {u \in DOMAIN reqs : popped[u] = <<>>}
         IN  [user_requests |-> [u \in DOMAIN reqs \ users_to_remove |-> popped[u]],
              last_cleanup |-> current_time]

\* _cleanup_if_needed(current_time): the pair of user_requests and last_cleanup after it
cleanup_if_needed(reqs, lc, current_time) ==
    IF current_time - lc < Ticks(cleanup_interval)
    THEN [user_requests |-> reqs, last_cleanup |-> lc]
    ELSE LET cutoff_time == current_time - Ticks(time_window)
             popped == [u \in DOMAIN reqs |-> PopExpired(reqs[u], cutoff_time)]
             users_to_remove == {u \in DOMAIN reqs : popped[u] = <<>>}
         IN  [user_requests |-> [u \in DOMAIN reqs \ users_to_remove |-> popped[u]],
              last_cleanup |-> current_time]

\* variant of is_allowed that answers without recording the admitted request
IsAllowedRecordsLater(reqs, lc, user_id, current_time) ==
    LET cleaned == cleanup_if_needed(reqs, lc, current_time)
        touched == Touch(cleaned.user_requests, user_id)
        cutoff_time == current_time - Ticks(time_window)
        user_queue == PopExpired(touched[user_id], cutoff_time)
    IN  [allowed |-> Len(user_queue) < max_requests,
         user_requests |-> [touched EXCEPT ![user_id] = user_queue],
         last_cleanup |-> cleaned.last_cleanup]

\* is_allowed(user_id) at time current_time: the returned bool and the state it leaves
is_allowed(reqs, lc, user_id, current_time) ==
    LET cleaned == cleanup_if_needed(reqs, lc, current_time)
        touched == Touch(cleaned.user_requests, user_id)
        cutoff_time == current_time - Ticks(time_window)
        user_queue == PopExpired(touched[user_id], cutoff_time)
        current_count == Len(user_queue)
    IN  IF current_count < max_requests
        THEN [allowed |-> TRUE,
              user_requests |-> [touched EXCEPT ![user_id] = Append(user_queue, current_time)],
              last_cleanup |-> cleaned.last_cleanup]
        ELSE [allowed |-> FALSE,
              user_requests |-> [touched EXCEPT ![user_id] = user_queue],
              last_cleanup |-> cleaned.last_cleanup]

\* is_allowed of a limiter whose sweep is never due (_cleanup_if_needed
\* returns at its first test): the returned bool and the map it leaves
is_allowed_unswept(reqs, user_id, current_time) ==
    is_allowed(reqs, current_time, user_id, current_time)

\* int(x) for x = num / TicksPerSecond: truncation towards zero
IntOfTicks(num) ==
    IF num >= 0 THEN num \div TicksPerSecond ELSE -((-num) \div TicksPerSecond)

Max(a, b) == IF a >= b THEN a ELSE b

\* get_wait_time(user_id) at time current_time: the returned seconds and the map it leaves
get_wait_time(reqs, user_id, current_time) ==
    LET touched == Touch(reqs, user_id)
        user_queue == touched[user_id]
    IN  IF user_queue = <<>> \/ Len(user_queue) < max_requests
        THEN [wait |-> 0, user_requests |-> touched]
        ELSE LET oldest_request == user_queue[1]
                 wait_time == IntOfTicks(Ticks(time_window) - (current_time - oldest_request))
             IN  [wait |-> Max(0, wait_time), user_requests |-> touched]

\* variant of reset_user that forgets only a user with no recorded request
ResetUserOnlyIfIdle(reqs, user_id) ==
    IF user_id \in DOMAIN reqs /\ reqs[user_id] = <<>>
    THEN [u \in DOMAIN reqs \ {user_id} |-> reqs[u]]
    ELSE reqs

\* reset_user(user_id): the map it leaves
reset_user(reqs, user_id) ==
    IF user_id \in DOMAIN reqs
    THEN [u \in DOMAIN reqs \ {user_id} |-> reqs[u]]
    ELSE reqs

\* ----------------------------------------------------------- OpenAIClient

\* Text is a sequence of characters; str.strip() drops the blanks at both ends.
RECURSIVE LStrip(_)
LStrip(text) ==
    IF text # <<>> /\ Head(text) = " " THEN LStrip(Tail(text)) ELSE text

RECURSIVE RStrip(_)
RStrip(text) ==
    IF text # <<>> /\ text[Len(text)] = " "
    THEN RStrip(SubSeq(text, 1, Len(text) - 1))
    ELSE text

Strip(text) == RStrip(LStrip(text))

valid_roles == {"system", "user", "assistant"}

\* variant of validate_messages that accepts a blank content
ValidateMessagesLax(messages) ==
    \A i \in 1..Len(messages) :
        /\ "role" \in DOMAIN messages[i]
        /\ "content" \in DOMAIN messages[i]
        /\ messages[i].role \in valid_roles

\* _validate_messages: each entry is a dict with the keys role and content, a
\* valid role and a content that is not blank.  (The isinstance checks have no
\* counterpart: every entry of the model is a dict of strings.)
validate_messages(messages) ==
    \A i \in 1..Len(messages) :
        /\ "role" \in DOMAIN messages[i] /\ "content" \in DOMAIN messages[i]
        /\ messages[i].role \in valid_roles
        /\ Strip(messages[i].content) # <<>>

\* What the remote endpoint does on one attempt: it answers with a text, or
\* the call raises.  Of the exception only the markers the handler looks for
\* in str(e).lower() matter: "rate" stands for ("rate" or "429"), "invalid"
\* for ("invalid" or "400"), "auth" for ("auth" or "401") and "timeout" for
\* ("timeout" or "timed out"); a message may hold several or none of them.
Markers == {"rate", "invalid", "auth", "timeout"}
Answer(content) == [ok |-> TRUE, content |-> content, markers |-> {}]
Raise(markers) == [ok |-> FALSE, content |-> <<>>, markers |-> markers]

\* the tuple get_chat_response returns, with the calls made to the remote
\* endpoint and the delays slept on the way
Result(success, response_text, error_message, calls, delays) ==
    [success |-> success, text |-> response_text, error |-> error_message,
     calls |-> calls, delays |-> delays]

\* One iteration of the retry loop, attempt in 0..max_retries-1, the remote
\* endpoint doing `outcome`: either the loop goes on after sleeping `delay`,
\* or get_chat_response returns (success, text, error).
Continue(delay) == [done |-> FALSE, delay |-> delay, success |-> FALSE, text |-> <<>>, error |-> ""]
Return(success, text, error) == [done |-> TRUE, delay |-> 0, success |-> success, text |-> text, error |-> error]

\* the branch of the except clause an exception with these markers takes: the
\* tests are made in this order, the first that matches decides
Classify(markers) ==
    IF "rate" \in markers THEN "rate"
    ELSE IF "invalid" \in markers THEN "invalid"
    ELSE IF "auth" \in markers THEN "auth"
    ELSE IF "timeout" \in markers THEN "timeout"
    ELSE "other"

\* variant of AttemptStep that retries an authentication or invalid-request
\* failure like an unclassified one
AttemptStepRetriesTerminal(attempt, outcome) ==
    IF outcome.ok
    THEN IF Strip(outcome.content) = <<>>
         THEN Return(FALSE, <<>>, "Empty response from OpenAI")
         ELSE Return(TRUE, Strip(outcome.content), "")
    ELSE IF attempt < max_retries - 1
    THEN Continue(retry_delay * (IF Classify(outcome.markers) = "timeout" THEN 2 ELSE 1)
                      * (attempt + 1))
    ELSE Return(FALSE, <<>>,
                CASE Classify(outcome.markers) = "rate" ->
                         "Rate limit exceeded. Please try again later."
                  [] Classify(outcome.markers) = "timeout" ->
                         "Request timed out. Please try again."
                  [] OTHER -> "AI service temporarily unavailable")

\* variant of AttemptStep that backs off after a timeout as after any other failure
AttemptStepFlatBackoff(attempt, outcome) ==
    IF outcome.ok
    THEN IF Strip(outcome.content) = <<>>
         THEN Return(FALSE, <<>>, "Empty response from OpenAI")
         ELSE Return(TRUE, Strip(outcome.content), "")
    ELSE IF Classify(outcome.markers) = "invalid"
    THEN Return(FALSE, <<>>, "Invalid request to AI service")
    ELSE IF Classify(outcome.markers) = "auth"
    THEN Return(FALSE, <<>>, "Authentication failed")
    ELSE IF attempt < max_retries - 1
    THEN Continue(retry_delay * (attempt + 1))
    ELSE Return(FALSE, <<>>,
                CASE Classify(outcome.markers) = "rate" ->
                         "Rate limit exceeded. Please try again later."
                  [] Classify(outcome.markers) = "timeout" ->
                         "Request timed out. Please try again."
                  [] OTHER -> "AI service temporarily unavailable")

\* variant of AttemptStep that reports every exhausted failure alike
AttemptStepOneExhaustedError(attempt, outcome) ==
    IF outcome.ok
    THEN IF Strip(outcome.content) = <<>>
         THEN Return(FALSE, <<>>, "Empty response from OpenAI")
         ELSE Return(TRUE, Strip(outcome.content), "")
    ELSE IF Classify(outcome.markers) = "invalid"
    THEN Return(FALSE, <<>>, "Invalid request to AI service")
    ELSE IF Classify(outcome.markers) = "auth"
    THEN Return(FALSE, <<>>, "Authentication failed")
    ELSE IF attempt < max_retries - 1
    THEN Continue(retry_delay * (IF Classify(outcome.markers) = "timeout" THEN 2 ELSE 1)
                      * (attempt + 1))
    ELSE Return(FALSE, <<>>, "AI service temporarily unavailable")

\* variant of AttemptStep that sleeps and goes on after a rate-limit failure of
\* the last attempt too
AttemptStepSleepsAfterLast(attempt, outcome) ==
    IF outcome.ok
    THEN IF Strip(outcome.content) = <<>>
         THEN Return(FALSE, <<>>, "Empty response from OpenAI")
         ELSE Return(TRUE, Strip(outcome.content), "")
    ELSE IF Classify(outcome.markers) = "invalid"
    THEN Return(FALSE, <<>>, "Invalid request to AI service")
    ELSE IF Classify(outcome.markers) = "auth"
    THEN Return(FALSE, <<>>, "Authentication failed")
    ELSE IF Classify(outcome.markers) = "rate"
    THEN Continue(retry_delay * (attempt + 1))
    ELSE IF attempt < max_retries - 1
    THEN Continue(retry_delay * (IF Classify(outcome.markers) = "timeout" THEN 2 ELSE 1)
                      * (attempt + 1))
    ELSE Return(FALSE, <<>>,
                IF Classify(outcome.markers) = "timeout"
                THEN "Request timed out. Please try again."
                ELSE "AI service temporarily unavailable")

AttemptStep(attempt, outcome) ==
    IF outcome.ok
    THEN LET response_text == Strip(outcome.content)
         IN  IF response_text = <<>>
             THEN Return(FALSE, <<>>, "Empty response from OpenAI")
             ELSE Return(TRUE, response_text, "")
    ELSE IF "rate" \in outcome.markers
    THEN IF attempt < max_retries - 1
         THEN Continue(retry_delay * (attempt + 1))
         ELSE Return(FALSE, <<>>, "Rate limit exceeded. Please try again later.")
    ELSE IF "invalid" \in outcome.markers
    THEN Return(FALSE, <<>>, "Invalid request to AI service")
    ELSE IF "auth" \in outcome.markers
    THEN Return(FALSE, <<>>, "Authentication failed")
    ELSE IF "timeout" \in outcome.markers
    THEN IF attempt < max_retries - 1
         THEN Continue(retry_delay * 2 * (attempt + 1))
         ELSE Return(FALSE, <<>>, "Request timed out. Please try again.")
    ELSE IF attempt < max_retries - 1
         THEN Continue(retry_delay * (attempt + 1))
         ELSE Return(FALSE, <<>>, "AI service temporarily unavailable")

\* for attempt in range(self.max_retries): ... ; script[i] is what the remote
\* endpoint does on the i-th call
RECURSIVE RetryLoop(_, _, _, _)
RetryLoop(script, attempt, calls, delays) ==
    IF attempt >= max_retries
    THEN Result(FALSE, <<>>, "Service temporarily unavailable after multiple attempts",
                calls, delays)
    ELSE LET step == AttemptStep(attempt, script[attempt + 1])
         IN  IF step.done
             THEN Result(step.success, step.text, step.error, calls + 1, delays)
             ELSE RetryLoop(script, attempt + 1, calls + 1, Append(delays, step.delay))

\* the validation that precedes the loop: the failure it returns, or "" to go on
InputError(messages) ==
    IF messages = <<>> THEN "No messages provided"
    ELSE IF ~validate_messages(messages) THEN "Invalid message format"
    ELSE ""

\* get_chat_response(messages) against a remote endpoint that follows script
get_chat_response(messages, script) ==
    IF InputError(messages) # ""
    THEN Result(FALSE, <<>>, InputError(messages), 0, <<>>)
    ELSE RetryLoop(script, 0, 0, <<>>)

RECURSIVE Sum(_)
Sum(seq) == IF seq = <<>> THEN 0 ELSE Head(seq) + Sum(Tail(seq))

\* ----------------------------------------------------------- observations

\* the admissions still within one window of the time t
Recent(log, t) == SelectSeq(log, LAMBDA a : a >= t - Ticks(time_window))

Observe(user_id, allowed) ==
    /\ admitted' = IF allowed
                   THEN [admitted EXCEPT ![user_id] = Append(@, now)]
                   ELSE admitted
    /\ reset_state' = IF reset_state[user_id] = "pending"
                      THEN [reset_state EXCEPT ![user_id] = "used"]
                      ELSE reset_state

\* ------------------------------------------------------------ the clock

LimiterInit ==
    /\ now = 0
    /\ user_requests = <<>>
    /\ last_cleanup = 0
    /\ admitted = [u \in Users |-> <<>>]
    /\ reset_state = [u \in Users |-> "never"]
    /\ unswept_requests = <<>>

\* time.time() advances to a later instant of the set instants
Advance(instants) ==
    /\ \E t \in instants : t > now /\ now' = t
    /\ admitted' = [u \in Users |-> Recent(admitted[u], now')]
    /\ UNCHANGED <<user_requests, last_cleanup, reset_state, unswept_requests>>

\* ------------------------------------------------------------------ bot.py

\* Inbound texts: a plain message, one with a leading blank, a blank one, one
\* longer than max_message_length, and the command !clear (the command name
\* is one character of the model; !ping and !help touch no state of the bot
\* and are left out).
LongText == [i \in 1..(max_message_length + 1) |-> "a"]
Texts == {<<"a">>, <<" ", "a">>, <<" ">>, LongText, <<"!", "clear">>}

\* validator.validate_message(content) -> (is_valid, cleaned_text, error):
\* length bounds on the raw input, non-empty after trimming
validate_message(content) ==
    IF Strip(content) = <<>>
    THEN [is_valid |-> FALSE, cleaned_text |-> <<>>, error |-> "Message cannot be empty"]
    ELSE IF Len(content) > max_message_length
    THEN [is_valid |-> FALSE, cleaned_text |-> <<>>, error |-> "Message too long"]
    ELSE [is_valid |-> TRUE, cleaned_text |-> Strip(content), error |-> ""]

\* a stored message; id is the serial number of the inbound message whose turn
\* it belongs to (it tells equal texts apart, the code does not store it)
Entry(role, content, id) == [role |-> role, content |-> content, id |-> id]

\* user_contexts[user_id] = [] for a user not seen before
WithUser(ctxs, user_id) ==
    IF user_id \in DOMAIN ctxs
    THEN ctxs
    ELSE [u \in DOMAIN ctxs \cup {user_id} |-> IF u = user_id THEN <<>> ELSE ctxs[u]]

\* list[-max_messages:]
LastN(list, n) ==
    IF Len(list) > n THEN SubSeq(list, Len(list) - n + 1, Len(list)) ELSE list

\* lines 75-86: append the user message, keep only the last max_messages
AppendUserMessage(ctxs, user_id, entry) ==
    LET created == WithUser(ctxs, user_id)
        appended == Append(created[user_id], entry)
        max_messages == max_context_length * 2
    IN  [created EXCEPT ![user_id] =
            IF Len(appended) > max_messages THEN LastN(appended, max_messages) ELSE appended]

\* line 101: append the reply (no truncation follows)
AppendReplyMessage(ctxs, user_id, entry) ==
    [ctxs EXCEPT ![user_id] = Append(@, entry)]

NoTmp == [wait |-> 0, text |-> <<>>, error |-> ""]
\* msg[h].alone is an observation: no other handler invocation has touched the
\* author's history since this one took its message
NoMsg == [author |-> BotUser, id |-> 0, command |-> "", alone |-> FALSE]

\* What on_message leaves when it reaches its first await or returns: where
\* the handler is then suspended ("idle": it returned), the limiter, the
\* contexts, the local it carries, and whether and how is_allowed answered.
Untouched(reqs, lc, ctxs) ==
    [pc |-> "idle", user_requests |-> reqs, last_cleanup |-> lc,
     user_contexts |-> ctxs, tmp |-> NoTmp, command |-> "",
     checked |-> FALSE, allowed |-> FALSE]

\* lines 69-89, r being what is_allowed left: validate, then append the user
\* message and truncate
ValidatedAfterAppend(r, author, content, id, ctxs) ==
    LET v == validate_message(content)
        checked == [Untouched(r.user_requests, r.last_cleanup, ctxs)
                        EXCEPT !.checked = TRUE, !.allowed = TRUE]
        stored == AppendUserMessage(ctxs, author, Entry("user", Strip(content), id))
    IN  IF ~v.is_valid
        THEN [checked EXCEPT !.pc = "send_invalid", !.user_contexts = stored,
                             !.tmp = [NoTmp EXCEPT !.error = v.error]]
        ELSE [checked EXCEPT !.pc = "typing", !.user_contexts = stored]

Validated(r, author, content, id, ctxs) ==
    LET v == validate_message(content)
        checked == [Untouched(r.user_requests, r.last_cleanup, ctxs)
                        EXCEPT !.checked = TRUE, !.allowed = TRUE]
    IN  IF ~v.is_valid
        THEN [checked EXCEPT !.pc = "send_invalid",
                             !.tmp = [NoTmp EXCEPT !.error = v.error]]
        ELSE [checked EXCEPT !.pc = "typing",
                             !.user_contexts = AppendUserMessage(
                                 ctxs, author, Entry("user", v.cleaned_text, id))]

\* lines 62-67, r being what is_allowed left when it answered False: compute
\* the wait time, send the notice, return
RateLimitedFallsThrough(r, author, content, id, ctxs, current_time) ==
    LET w == get_wait_time(r.user_requests, author, current_time)
    IN  [Validated([r EXCEPT !.user_requests = w.user_requests], author, content, id, ctxs)
            EXCEPT !.allowed = FALSE]

RateLimited(r, author, content, id, ctxs, current_time) ==
    LET w == get_wait_time(r.user_requests, author, current_time)
    IN  [Untouched(w.user_requests, r.last_cleanup, ctxs)
            EXCEPT !.pc = "send_wait", !.tmp = [NoTmp EXCEPT !.wait = w.wait],
                   !.checked = TRUE]

\* on_message from its entry to its first await (lines 52-89)
on_message(author, content, id, reqs, lc, ctxs, current_time) ==
    IF author = BotUser
    THEN Untouched(reqs, lc, ctxs)
    ELSE IF content # <<>> /\ Head(content) = "!"
    THEN [Untouched(reqs, lc, ctxs) EXCEPT !.pc = "command", !.command = content[2]]
    ELSE LET r == is_allowed(reqs, lc, author, current_time)
         IN  IF ~r.allowed
             THEN RateLimited(r, author, content, id, ctxs, current_time)
             ELSE Validated(r, author, content, id, ctxs)

\* clear_context (lines 126-128)
clear_context(ctxs, user_id) ==
    IF user_id \in DOMAIN ctxs THEN [ctxs EXCEPT ![user_id] = <<>>] ELSE ctxs

\* what the remote endpoint may do on an attempt, in the bot's runs
BotOutcomes == {Answer(<<"r">>), Raise({"rate"}), Raise({"auth"})}
\* one script for each run of the retry loop: what follows the attempt on
\* which get_chat_response returns is never called, and is fixed to an answer
BotScripts ==
    {script \in [1..max_retries -> BotOutcomes] :
        \A i \in 1..(max_retries - 1) :
            AttemptStep(i - 1, script[i]).done => script[i + 1] = Answer(<<"r">>)}

\* The bot's runs read the clock at the start and just after one window has
\* passed (the limiter's own runs, SpecLimiter, read it at all of Times).
BotTimes == {0, Ticks(time_window) + 1}

\* the first instant of the bot's runs at or after t
InstantsFrom(t) == {i \in BotTimes : i >= t}
FirstInstant(t) == CHOOSE i \in InstantsFrom(t) : \A j \in InstantsFrom(t) : i <= j

PruneAdmitted(t) == [u \in Users |-> Recent(admitted[u], t)]

\* msg[g] once another handler invocation has touched the history of user_id
Disturbed(m, user_id) ==
    IF m.author = user_id THEN [m EXCEPT !.alone = FALSE] ELSE m

\* A message arrives and on_message runs to its first await or to its return.
\* (Handler invocations are interchangeable: the lowest idle one takes it.)
OnMessage(h) ==
    /\ pc[h] = "idle"
    /\ \A g \in Handlers : g < h => pc[g] # "idle"
    /\ next_id < MaxMsgs
    /\ \E author \in Users \cup {BotUser}, content \in Texts :
          LET id == next_id + 1
              p == on_message(author, content, id, user_requests, last_cleanup,
                              user_contexts, now)
          IN  /\ next_id' = id
              /\ pc' = [pc EXCEPT ![h] = p.pc]
              /\ msg' = [g \in Handlers |->
                            IF g = h
                            THEN IF p.pc = "idle" THEN NoMsg
                                 ELSE [author |-> author, id |-> id, command |-> p.command,
                                       alone |-> \A k \in Handlers \ {h} :
                                                    msg[k].author # author]
                            ELSE IF p.user_contexts # user_contexts
                            THEN Disturbed(msg[g], author)
                            ELSE msg[g]]
              /\ tmp' = [tmp EXCEPT ![h] = p.tmp]
              /\ user_requests' = p.user_requests
              /\ last_cleanup' = p.last_cleanup
              /\ unswept_requests' =
                     on_message(author, content, id, unswept_requests, now,
                                user_contexts, now).user_requests
              /\ user_contexts' = p.user_contexts
              /\ IF p.checked
                 THEN Observe(author, p.allowed)
                 ELSE UNCHANGED <<admitted, reset_state>>
    /\ UNCHANGED <<now, api_calls, streak, client_vars>>

\* bot.process_commands resumes and runs the command body to its send.
Command(h) ==
    /\ pc[h] = "command"
    /\ msg[h].command = "clear"
    /\ user_contexts' = clear_context(user_contexts, msg[h].author)
    /\ pc' = [pc EXCEPT ![h] = "send_cleared"]
    /\ msg' = [g \in Handlers |-> IF g = h THEN msg[g] ELSE Disturbed(msg[g], msg[h].author)]
    /\ streak' = [streak EXCEPT ![msg[h].author] = <<>>]
    /\ UNCHANGED <<limiter_vars, tmp, next_id, api_calls, client_vars>>

\* variant of CallAPI that returns after a failed call without sending the error
CallAPIFailsSilently(h) ==
    /\ pc[h] = "typing"
    /\ \E script \in BotScripts :
          LET user_id == msg[h].author
              r == get_chat_response(user_contexts[user_id], script)
              after == now + Ticks(Sum(r.delays))
          IN  /\ InstantsFrom(after) # {}
              /\ now' = FirstInstant(after)
              /\ admitted' = PruneAdmitted(now')
              /\ api_calls' = api_calls + 1
              /\ IF r.success
                 THEN /\ pc' = [pc EXCEPT ![h] = "typing_exit"]
                      /\ tmp' = [tmp EXCEPT ![h] = [NoTmp EXCEPT !.text = r.text]]
                      /\ msg' = msg
                      /\ streak' = streak
                 ELSE /\ pc' = [pc EXCEPT ![h] = "idle"]
                      /\ tmp' = [tmp EXCEPT ![h] = NoTmp]
                      /\ msg' = [msg EXCEPT ![h] = NoMsg]
                      /\ streak' = [streak EXCEPT ![user_id] = <<>>]
    /\ UNCHANGED <<user_requests, last_cleanup, reset_state, unswept_requests,
                   user_contexts, next_id, client_vars>>

\* The typing indicator is entered and get_chat_response runs (lines 89-98);
\* it is synchronous, so the time it sleeps between attempts passes here.
CallAPI(h) ==
    /\ pc[h] = "typing"
    /\ \E script \in BotScripts :
          LET user_id == msg[h].author
              r == get_chat_response(user_contexts[user_id], script)
              after == now + Ticks(Sum(r.delays))
          IN  /\ InstantsFrom(after) # {}
              /\ now' = FirstInstant(after)
              /\ admitted' = PruneAdmitted(now')
              /\ api_calls' = api_calls + 1
              /\ IF r.success
                 THEN /\ pc' = [pc EXCEPT ![h] = "typing_exit"]
                      /\ tmp' = [tmp EXCEPT ![h] = [NoTmp EXCEPT !.text = r.text]]
                      /\ streak' = streak
                 ELSE /\ pc' = [pc EXCEPT ![h] = "send_error"]
                      /\ tmp' = [tmp EXCEPT ![h] = [NoTmp EXCEPT !.error = r.error]]
                      /\ streak' = [streak EXCEPT ![user_id] = <<>>]
    /\ UNCHANGED <<user_requests, last_cleanup, reset_state, unswept_requests,
                   user_contexts, msg, next_id, client_vars>>

\* The typing indicator is left and the reply is stored (line 101).
AppendReply(h) ==
    /\ pc[h] = "typing_exit"
    /\ user_contexts' = AppendReplyMessage(user_contexts, msg[h].author,
                                           Entry("assistant", tmp[h].text, msg[h].id))
    /\ pc' = [pc EXCEPT ![h] = "send_reply"]
    /\ msg' = [g \in Handlers |-> IF g = h THEN msg[g] ELSE Disturbed(msg[g], msg[h].author)]
    /\ streak' = [streak EXCEPT ![msg[h].author] =
                      IF msg[h].alone
                      THEN LastN(Append(@, msg[h].id), max_context_length)
                      ELSE <<>>]
    /\ UNCHANGED <<limiter_vars, tmp, next_id, api_calls, client_vars>>

SendPoints == {"send_wait", "send_invalid", "send_error", "send_reply", "send_cleared"}

\* The pending send completes and the handler returns.
Send(h) ==
    /\ pc[h] \in SendPoints
    /\ pc' = [pc EXCEPT ![h] = "idle"]
    /\ msg' = [msg EXCEPT ![h] = NoMsg]
    /\ tmp' = [tmp EXCEPT ![h] = NoTmp]
    /\ UNCHANGED <<limiter_vars, user_contexts, next_id, api_calls, streak, client_vars>>

BotIdle ==
    /\ user_contexts = <<>>
    /\ pc = [h \in Handlers |-> "idle"]
    /\ msg = [h \in Handlers |-> NoMsg]
    /\ tmp = [h \in Handlers |-> NoTmp]
    /\ next_id = 0
    /\ api_calls = 0
    /\ streak = [u \in Users |-> <<>>]

\* c_result before get_chat_response has returned
NotReturned == Result(FALSE, <<>>, "not returned", 0, <<>>)

ClientIdle ==
    /\ c_messages = <<>>
    /\ c_script = <<>>
    /\ c_result = NotReturned

Init == LimiterInit /\ BotIdle /\ ClientIdle

Tick == Advance(BotTimes) /\ UNCHANGED <<bot_vars, client_vars>>

Next ==
    \/ Tick
    \/ \E h \in Handlers : OnMessage(h)
    \/ \E h \in Handlers : Command(h)
    \/ \E h \in Handlers : CallAPI(h)
    \/ \E h \in Handlers : AppendReply(h)
    \/ \E h \in Handlers : Send(h)

Spec == Init /\ [][Next]_vars

\* a suspended handler is resumed and runs to its next await or to its return
Resume ==
    \E h \in Handlers : Command(h) \/ CallAPI(h) \/ AppendReply(h) \/ Send(h)

\* The event loop does not idle for ever while a coroutine is ready to be
\* resumed (the awaited sends and typing requests complete).
SpecLive == Spec /\ WF_vars(Resume)


\* ---------------------------------------------- RateLimiter as unit under test

CallIsAllowed(user_id) ==
    LET r == is_allowed(user_requests, last_cleanup, user_id, now)
    IN  /\ user_requests' = r.user_requests
        /\ last_cleanup' = r.last_cleanup
        /\ unswept_requests' = is_allowed_unswept(unswept_requests, user_id, now).user_requests
        /\ Observe(user_id, r.allowed)
        /\ UNCHANGED <<now, bot_vars, client_vars>>

CallGetWaitTime(user_id) ==
    LET r == get_wait_time(user_requests, user_id, now)
    IN  /\ user_requests' = r.user_requests
        /\ unswept_requests' = get_wait_time(unswept_requests, user_id, now).user_requests
        /\ UNCHANGED <<now, last_cleanup, admitted, reset_state, bot_vars, client_vars>>

\* the administrative override; the model lets it be used once, on either identity
CallResetUser(user_id) ==
    /\ \A u \in Users : reset_state[u] = "never"
    /\ user_requests' = reset_user(user_requests, user_id)
    /\ unswept_requests' = reset_user(unswept_requests, user_id)
    /\ reset_state' = [reset_state EXCEPT ![user_id] = "pending"]
    /\ UNCHANGED <<now, last_cleanup, admitted, bot_vars, client_vars>>

LimiterTick == Advance(Times) /\ UNCHANGED <<bot_vars, client_vars>>

LimiterNext ==
    \/ LimiterTick
    \/ \E u \in Users : CallIsAllowed(u)
    \/ \E u \in Users : CallGetWaitTime(u)
    \/ \E u \in Users : CallResetUser(u)

SpecLimiter == Init /\ [][LimiterNext]_vars

\* --------------------------------------------- OpenAIClient as unit under test

\* The entries a caller may pass: well-formed ones, one whose role is not a
\* valid one, one whose content is empty, one whose content is blank, and
\* dicts lacking one of the keys.
ClientEntries ==
    [role : {"system", "user", "tool"}, content : {<<"a">>}]
        \cup [role : {"user"}, content : {<<>>, <<" ">>}]
        \cup [role : {"user"}] \cup [content : {<<"a">>}]
ClientInputs == UNION {[1..n -> ClientEntries] : n \in 0..MaxClientLen}

\* every behaviour of the remote endpoint on one attempt
ClientOutcomes == {Answer(<<"r">>), Answer(<<" ">>)} \cup {Raise(m) : m \in SUBSET Markers}
ClientScripts == [1..max_retries -> ClientOutcomes]

ClientInit ==
    /\ LimiterInit
    /\ BotIdle
    /\ c_messages \in ClientInputs
    /\ c_script = <<>>
    /\ c_result = NotReturned

\* get_chat_response(c_messages) runs to its return; c_script keeps what the
\* remote endpoint did on the calls that were made.
ClientCall ==
    /\ c_result = NotReturned
    /\ \E script \in ClientScripts :
          LET r == get_chat_response(c_messages, script)
          IN  /\ c_result' = r
              /\ c_script' = SubSeq(script, 1, r.calls)
    /\ UNCHANGED <<c_messages, limiter_vars, bot_vars>>

ClientNext == ClientCall

SpecClient == ClientInit /\ [][ClientNext]_vars

\* ------------------------------------------------------------------ claims

\* number of the admissions log[1..i] that lie within one window before log[i]
InWindowBefore(log, i) ==
    Cardinality({j \in 1..i : log[j] >= log[i] - Ticks(time_window)})

\* C1: for an identity that is only ever passed to is_allowed (never reset),
\* the calls that returned True within the time_window seconds up to and
\* including any one of them number at most max_requests.
C1_AtMostMaxRequestsPerWindow ==
    \A u \in Users :
        reset_state[u] = "never" =>
            \A i \in 1..Len(admitted[u]) : InWindowBefore(admitted[u], i) <= max_requests

\* C1 witness: an identity has used its whole budget, its oldest admission is
\* exactly one window old and still counts, so a call now is refused.
C1_Witness ==
    \E u \in Users :
        /\ reset_state[u] = "never"
        /\ Len(admitted[u]) = max_requests
        /\ admitted[u][1] = now - Ticks(time_window)
        /\ u \in DOMAIN user_requests
        /\ ~is_allowed(user_requests, last_cleanup, u, now).allowed

\* the identity's recorded timestamps fill the budget
AtCapacity(u) ==
    u \in DOMAIN user_requests /\ Len(user_requests[u]) >= max_requests

\* C7: for an identity at capacity, get_wait_time returns 0 at a time exactly
\* when is_allowed called at that time would admit the request.
C7_WaitZeroIffAdmitted ==
    \A u \in Users :
        AtCapacity(u) =>
            (get_wait_time(user_requests, u, now).wait = 0
                <=> is_allowed(user_requests, last_cleanup, u, now).allowed)

\* C7, the part that holds: while no request is admitted and nothing is reset,
\* the wait time of an identity at capacity does not grow as time advances.
C7_WaitNonIncreasing ==
    [][\A u \in Users :
          (AtCapacity(u) /\ user_requests' = user_requests)
              => get_wait_time(user_requests', u, now').wait
                     <= get_wait_time(user_requests, u, now).wait]_vars

\* C8: from a reset of an identity until its next is_allowed call, is_allowed
\* called for it returns True.
C8_AllowedAfterReset ==
    \A u \in Users :
        reset_state[u] = "pending"
            => is_allowed(user_requests, last_cleanup, u, now).allowed

\* C8 witness: an identity that had used its whole budget was reset and then
\* admitted again, so that more than max_requests admissions lie in one window.
C8_Witness ==
    \E u \in Users :
        /\ reset_state[u] = "used"
        /\ Len(admitted[u]) = max_requests + 1
        /\ admitted[u][1] = now

\* C2: the stored history of every identity holds at most
\* 2 * max_context_length entries.
C2_HistoryWithinCap ==
    \A u \in DOMAIN user_contexts : Len(user_contexts[u]) <= 2 * max_context_length

\* list is what is left of longer after dropping entries from its front
IsSuffix(list, longer) ==
    /\ Len(list) <= Len(longer)
    /\ list = SubSeq(longer, Len(longer) - Len(list) + 1, Len(longer))

\* C2, the part that holds: a step that stores a message leaves the old
\* history with the message at its end, less some entries dropped at the front.
C2_TruncationDropsOldest ==
    [][\A u \in DOMAIN user_contexts :
          user_contexts'[u] # user_contexts[u] /\ user_contexts'[u] # <<>>
              => IsSuffix(user_contexts'[u],
                          Append(user_contexts[u], user_contexts'[u][Len(user_contexts'[u])]))]_vars

\* C3: when get_chat_response has failed for a turn, nothing of that turn is
\* in the identity's history.
C3_FailedTurnLeavesNoTrace ==
    \A h \in Handlers :
        pc[h] = "send_error" =>
            \A i \in 1..Len(user_contexts[msg[h].author]) :
                user_contexts[msg[h].author][i].id # msg[h].id

\* the roles and serial numbers of a history
RolesAndIds(list) == [i \in 1..Len(list) |-> <<list[i].role, list[i].id>>]

\* the user message and the reply of each of the turns ids, in order
PairsOf(ids) ==
    [i \in 1..(2 * Len(ids)) |->
        IF i % 2 = 1 THEN <<"user", ids[(i + 1) \div 2]>> ELSE <<"assistant", ids[i \div 2]>>]

\* C4: once max_context_length or more turns of an identity have succeeded
\* one after the other, its history is exactly the user message and the reply
\* of each of the last max_context_length turns, in order.
C4_HistoryIsLastPairs ==
    \A h \in Handlers :
        (/\ pc[h] = "send_reply"
         /\ msg[h].alone
         /\ Len(streak[msg[h].author]) = max_context_length)
            => RolesAndIds(user_contexts[msg[h].author]) = PairsOf(streak[msg[h].author])

\* handler invocation h takes a message of a user whom is_allowed refuses
DeniedStep(h) ==
    /\ pc[h] = "idle"
    /\ pc'[h] \notin {"idle", "command"}
    /\ ~is_allowed(user_requests, last_cleanup, msg'[h].author, now).allowed

\* C5: a message is_allowed refuses brings its handler to the send of the
\* wait-time notice with the wait time get_wait_time gives, and from there to
\* its return, the histories of all identities and the number of
\* get_chat_response invocations staying as they were.
C5_DenialShortCircuits ==
    [][\A h \in Handlers :
          /\ DeniedStep(h) =>
                /\ pc'[h] = "send_wait"
                /\ tmp'[h].wait = get_wait_time(user_requests', msg'[h].author, now).wait
                /\ user_contexts' = user_contexts
                /\ api_calls' = api_calls
          /\ (pc[h] = "send_wait" /\ pc'[h] # "send_wait") =>
                /\ pc'[h] = "idle"
                /\ user_contexts' = user_contexts
                /\ api_calls' = api_calls]_vars

\* C5 witness: a handler is about to send the wait notice to a user who has a
\* history, after get_chat_response has been invoked for earlier messages.
C5_Witness ==
    \E h \in Handlers :
        /\ pc[h] = "send_wait"
        /\ msg[h].author \in DOMAIN user_contexts
        /\ user_contexts[msg[h].author] # <<>>
        /\ api_calls > 0

\* C6 as claimed: a message failing validation leaves the conversation store
\* and the limiter's recorded timestamps as they were before it arrived.
C6_InvalidLeavesAllState ==
    [][\A h \in Handlers :
          (pc[h] = "idle" /\ pc'[h] = "send_invalid")
              => user_contexts' = user_contexts /\ user_requests' = user_requests]_vars

\* C6 as amended: a message failing validation brings its handler to the send
\* of the validation error and from there to its return, the conversation
\* store and the number of get_chat_response invocations staying as they
\* were; the limiter, asked before the validation, has recorded the message's
\* admission at the time of arrival and changes no further.
C6_InvalidLeavesStoreOnly ==
    [][\A h \in Handlers :
          /\ (pc[h] = "idle" /\ pc'[h] = "send_invalid") =>
                /\ tmp'[h].error # ""
                /\ user_contexts' = user_contexts
                /\ api_calls' = api_calls
                /\ user_requests' =
                       is_allowed(user_requests, last_cleanup, msg'[h].author, now).user_requests
                /\ user_requests'[msg'[h].author][Len(user_requests'[msg'[h].author])] = now
          /\ (pc[h] = "send_invalid" /\ pc'[h] # "send_invalid") =>
                /\ pc'[h] = "idle"
                /\ user_contexts' = user_contexts
                /\ user_requests' = user_requests
                /\ api_calls' = api_calls]_vars

\* C6 witness: a handler is about to send a validation error to a user who
\* has no history and whose only recorded timestamp is this message's.
C6_Witness ==
    \E h \in Handlers :
        /\ pc[h] = "send_invalid"
        /\ msg[h].author \notin DOMAIN user_contexts
        /\ user_requests[msg[h].author] = <<now>>

\* C9: is_allowed admits a message only while the admissions already granted
\* to that identity within the window, by whichever handler, leave a slot
\* free; so of two handlers meeting one free slot only one is admitted.
C9_AdmissionNeedsFreeSlot ==
    [][\A u \in Users :
          Len(admitted'[u]) > Len(admitted[u])
              => Len(Recent(admitted[u], now)) < max_requests]_vars

\* the handler invocation has passed is_allowed and is still in flight
Admitted(h) == pc[h] \in {"send_invalid", "typing", "typing_exit", "send_error", "send_reply"}

\* C9 witness: two handlers of one identity in flight together, the window
\* full, one of them admitted and the other refused.
C9_Witness ==
    \E h, g \in Handlers :
        /\ h # g
        /\ msg[h].author = msg[g].author
        /\ Admitted(h)
        /\ pc[g] = "send_wait"
        /\ msg[g].id > msg[h].id
        /\ Len(admitted[msg[h].author]) = max_requests
        /\ admitted[msg[h].author][max_requests] = now

\* an entry the client must refuse: a role that is not a valid one, or an
\* empty content
BadEntry(m) ==
    \/ "role" \in DOMAIN m /\ m.role \notin {"system", "user", "assistant"}
    \/ "content" \in DOMAIN m /\ m.content = <<>>

\* C10: for an empty messages argument, or one with an entry of invalid role
\* or empty content, get_chat_response returns the invalid-input failure
\* and has not called the remote endpoint.
C10_InvalidInputNoCall ==
    (/\ c_result # NotReturned
     /\ \/ c_messages = <<>>
        \/ \E i \in 1..Len(c_messages) : BadEntry(c_messages[i]))
        => /\ ~c_result.success
           /\ c_result.text = <<>>
           /\ c_result.error = (IF c_messages = <<>> THEN "No messages provided"
                                ELSE "Invalid message format")
           /\ c_result.calls = 0
           /\ c_result.delays = <<>>
           /\ c_script = <<>>

\* C10 witness: get_chat_response has refused a sequence whose first entry is
\* well-formed and whose second has an empty content.
C10_Witness ==
    /\ Len(c_messages) = 2
    /\ c_messages[1] = [role |-> "user", content |-> <<"a">>]
    /\ c_messages[2] = [role |-> "user", content |-> <<>>]
    /\ c_result.error = "Invalid message format"
    /\ c_result.calls = 0

\* the remote endpoint's i-th call failed in the class c of the except clause
FailedAs(i, c) == ~c_script[i].ok /\ Classify(c_script[i].markers) = c

\* the remote endpoint's i-th call failed in a class that is retried
Transient(i) == FailedAs(i, "rate") \/ FailedAs(i, "timeout") \/ FailedAs(i, "other")

\* get_chat_response has passed its input validation, called the remote
\* endpoint and returned
Called == c_result # NotReturned /\ c_result.calls > 0

\* C11: an attempt that fails in the authentication class or in the
\* invalid-request class is the last one: get_chat_response returns that
\* class's failure, having slept only between the attempts before it (none
\* when it is the first attempt, which is then the only one).
C11_TerminalFailureEndsAtOnce ==
    Called =>
        \A i \in 1..Len(c_script) :
            (FailedAs(i, "auth") \/ FailedAs(i, "invalid")) =>
                /\ i = c_result.calls
                /\ ~c_result.success
                /\ c_result.text = <<>>
                /\ c_result.error = (IF FailedAs(i, "auth") THEN "Authentication failed"
                                     ELSE "Invalid request to AI service")
                /\ Len(c_result.delays) = i - 1

\* C11 witness: an authentication failure on the first attempt, one call made
\* and nothing slept.
C11_Witness ==
    /\ Called
    /\ c_script = <<Raise({"auth"})>>
    /\ c_result.calls = 1
    /\ c_result.delays = <<>>
    /\ c_result.error = "Authentication failed"

\* the seconds the code sleeps after the failure of attempt i (counted from 1)
Backoff(i) == IF FailedAs(i, "timeout") THEN 2 * retry_delay * i ELSE retry_delay * i

\* C12: when get_chat_response succeeds on attempt k + 1 after k transient
\* failures, it returns the trimmed answer having slept exactly k times, after
\* attempt i for retry_delay * i seconds (rate limit, unclassified) or
\* 2 * retry_delay * i seconds (timeout).
C12_BackoffThenSuccess ==
    (/\ Called
     /\ \A i \in 1..(Len(c_script) - 1) : Transient(i)
     /\ c_script[Len(c_script)].ok
     /\ Strip(c_script[Len(c_script)].content) # <<>>)
        => /\ c_result.success
           /\ c_result.calls = Len(c_script)
           /\ c_result.calls <= max_retries
           /\ c_result.text = Strip(c_script[c_result.calls].content)
           /\ c_result.error = ""
           /\ c_result.delays = [i \in 1..(c_result.calls - 1) |-> Backoff(i)]

\* C12 witness: two rate-limit failures, then an answer; the delays slept are
\* retry_delay and 2 * retry_delay.
C12_Witness ==
    /\ c_script = <<Raise({"rate"}), Raise({"rate"}), Answer(<<"r">>)>>
    /\ c_result.success
    /\ c_result.text = <<"r">>
    /\ c_result.delays = <<retry_delay, 2 * retry_delay>>

\* C12 witness of the longer backoff: a timeout, then an answer.
C12_TimeoutSeen ==
    /\ c_script = <<Raise({"timeout"}), Answer(<<"r">>)>>
    /\ c_result.success
    /\ c_result.delays = <<2 * retry_delay>>

\* every one of the max_retries attempts was made and failed in a retried class
Exhausted ==
    /\ Called
    /\ Len(c_script) = max_retries
    /\ \A i \in 1..max_retries : Transient(i)

C20_BoundedAttempts ==
    c_result # NotReturned =>
        /\ c_result.calls \in 0..max_retries
        /\ Len(c_script) = c_result.calls
        /\ Len(c_result.delays) <= max_retries - 1
        /\ Len(c_result.delays) = (IF c_result.calls = 0 THEN 0 ELSE c_result.calls - 1)
        /\ c_result.error # "Service temporarily unavailable after multiple attempts"
        /\ c_result.success <=> c_result.error = ""
        /\ c_result.success <=> c_result.text # <<>>

\* C20 witness: the last attempt fails with a timeout after two failures; three
\* calls, two sleeps, none after the last.
C20_Witness ==
    /\ Exhausted
    /\ FailedAs(1, "rate") /\ FailedAs(2, "timeout") /\ FailedAs(max_retries, "timeout")
    /\ c_result.delays = <<retry_delay, 4 * retry_delay>>
    /\ c_result.error = "Request timed out. Please try again."

\* C15: get_wait_time leaves the limiter's map as it was, for every identity,
\* one the limiter has never seen included.
C15_GetWaitTimeReadOnly ==
    \A u \in Users : get_wait_time(user_requests, u, now).user_requests = user_requests

\* C15, the part that holds: get_wait_time changes no timestamp sequence of
\* the map; all it may do is add the identity asked about, with no timestamp.
C15_GetWaitTimeKeepsTimestamps ==
    \A u \in Users :
        LET after == get_wait_time(user_requests, u, now).user_requests
        IN  /\ DOMAIN after = DOMAIN user_requests \cup {u}
            /\ \A v \in DOMAIN user_requests : after[v] = user_requests[v]
            /\ u \notin DOMAIN user_requests => after[u] = <<>>

\* the sweep is due: an is_allowed call made now runs it
SweepDue == now - last_cleanup >= Ticks(cleanup_interval)

\* every timestamp recorded for u is older than the window
AllExpired(u) ==
    \A i \in 1..Len(user_requests[u]) : user_requests[u][i] < now - Ticks(time_window)

\* C16: the sweep removes from the map every identity whose timestamps are
\* all older than time_window, and leaves every other identity with exactly
\* its timestamps that lie within the window, in their order.
C16_SweepRemovesOnlyIdle ==
    SweepDue =>
        LET swept == cleanup_if_needed(user_requests, last_cleanup, now)
        IN  /\ swept.last_cleanup = now
            /\ \A u \in DOMAIN user_requests :
                  IF AllExpired(u)
                  THEN u \notin DOMAIN swept.user_requests
                  ELSE /\ u \in DOMAIN swept.user_requests
                       /\ swept.user_requests[u] = Recent(user_requests[u], now)
            /\ DOMAIN swept.user_requests \subseteq DOMAIN user_requests

\* C16 witness: the sweep is due while one identity has only timestamps older
\* than the window and another has one older and one within it.
C16_Witness ==
    /\ SweepDue
    /\ \E u, v \in DOMAIN user_requests :
          /\ user_requests[u] # <<>> /\ AllExpired(u)
          /\ Len(user_requests[v]) = 2
          /\ user_requests[v][1] < now - Ticks(time_window)
          /\ user_requests[v][2] >= now - Ticks(time_window)

\* C17: whatever calls were made so far, the next is_allowed call returns for
\* every identity the same answer in the limiter that sweeps as in the
\* limiter that received the same calls and never swept.
C17_SweepKeepsAdmission ==
    \A u \in Users :
        is_allowed(user_requests, last_cleanup, u, now).allowed
            = is_allowed_unswept(unswept_requests, u, now).allowed

\* C17 witness: a sweep has run and the two limiters hold different maps, the
\* one that never sweeps keeping an identity the sweep has removed.
C17_Witness ==
    /\ last_cleanup > 0
    /\ \E u \in DOMAIN unswept_requests :
          /\ u \notin DOMAIN user_requests
          /\ Len(unswept_requests[u]) = max_requests
    /\ \E v \in DOMAIN user_requests : Len(user_requests[v]) = max_requests

\* the deque is_allowed looks at when it makes its capacity check for u
InspectedByIsAllowed(u) ==
    LET r == is_allowed(user_requests, last_cleanup, u, now)
    IN  IF r.allowed
        THEN SubSeq(r.user_requests[u], 1, Len(r.user_requests[u]) - 1)
        ELSE r.user_requests[u]

\* the deque get_wait_time looks at for u
InspectedByGetWaitTime(u) == Touch(user_requests, u)[u]

WithinWindow(queue) == \A i \in 1..Len(queue) : queue[i] >= now - Ticks(time_window)
NonDecreasing(queue) == \A i, j \in 1..Len(queue) : i <= j => queue[i] <= queue[j]

\* C18 as claimed: the deque inspected by is_allowed and the deque inspected
\* by get_wait_time hold only timestamps within time_window of the current
\* time, in non-decreasing order.
C18_InspectedWithinWindow ==
    \A u \in Users :
        /\ WithinWindow(InspectedByIsAllowed(u)) /\ NonDecreasing(InspectedByIsAllowed(u))
        /\ WithinWindow(InspectedByGetWaitTime(u)) /\ NonDecreasing(InspectedByGetWaitTime(u))

\* C18 as amended: the deque is_allowed inspects at its capacity check holds
\* only timestamps within time_window of the current time; the deque
\* get_wait_time inspects, which is not evicted first, is only known to be in
\* non-decreasing order, and holds at most max_requests timestamps.
C18_InspectedAfterEviction ==
    \A u \in Users :
        /\ WithinWindow(InspectedByIsAllowed(u)) /\ NonDecreasing(InspectedByIsAllowed(u))
        /\ NonDecreasing(InspectedByGetWaitTime(u))
        /\ Len(InspectedByGetWaitTime(u)) <= max_requests

\* C18 witness: an identity at capacity whose timestamps have all left the
\* window; get_wait_time inspects them, is_allowed inspects none.
C18_Witness ==
    \E u \in DOMAIN user_requests :
        /\ Len(user_requests[u]) = max_requests
        /\ user_requests[u][max_requests] < now - Ticks(time_window)
        /\ InspectedByGetWaitTime(u) = user_requests[u]
        /\ InspectedByIsAllowed(u) = <<>>

\* the sends that answer a message: wait notice, validation error, API error, reply
Replies == {"send_wait", "send_invalid", "send_error", "send_reply"}

\* handler invocation h holds a message that is neither the bot's own nor a command
Handling(h) == pc[h] \in {"typing", "typing_exit"} \cup Replies

\* where on_message leaves a message of a user that is not a command
FirstStop(author, content) ==
    on_message(author, content, next_id + 1, user_requests, last_cleanup,
               user_contexts, now).pc

\* C14: a message that is neither the bot's own nor a command is taken up by
\* on_message, which does not return before it has a reply to send; the
\* handler returns only when a send has completed; and whenever handlers
\* hold such messages, a time comes at which all of them have returned.
C14_EveryMessageAnswered ==
    /\ [](\A author \in Users, content \in Texts :
             Head(content) # "!" => FirstStop(author, content) \in {"typing"} \cup Replies)
    /\ [][\A h \in Handlers :
             (Handling(h) /\ pc'[h] \notin {"typing", "typing_exit"} \cup Replies)
                 => pc[h] \in Replies /\ pc'[h] = "idle"]_vars
    /\ (\E h \in Handlers : Handling(h)) ~> (\A h \in Handlers : pc[h] = "idle")

\* C14 witness: an error of get_chat_response is about to be sent while the
\* other handler is about to send a wait notice.
C14_Witness ==
    \E h, g \in Handlers :
        /\ pc[h] = "send_error" /\ tmp[h].error # ""
        /\ pc[g] = "send_wait"

\* C19: in the history of every identity no two neighbouring entries have the
\* same role.
C19_HistoryAlternates ==
    \A u \in DOMAIN user_contexts :
        \A i \in 1..(Len(user_contexts[u]) - 1) :
            user_contexts[u][i].role # user_contexts[u][i + 1].role

\* handler invocation h leaves the typing entry: get_chat_response is called
\* with user_contexts[user_id] as it is now
InvokesClient(h) == pc[h] = "typing" /\ pc'[h] # "typing"

\* handler invocation h appends its reply (line 101)
StoresReply(h) == pc[h] = "typing_exit" /\ pc'[h] = "send_reply"

\* the history handed to get_chat_response ends with the user message of h
EndsWithOwnMessage(h) ==
    LET history == user_contexts[msg[h].author]
    IN  /\ history # <<>>
        /\ history[Len(history)].role = "user"
        /\ history[Len(history)].id = msg[h].id

\* the reply of h is the last entry of the new history and the entry before
\* it is the user message of h
ReplyFollowsOwnMessage(h) ==
    LET history == user_contexts'[msg[h].author]
        n == Len(history)
    IN  /\ n >= 2
        /\ history[n].role = "assistant" /\ history[n].id = msg[h].id
        /\ history[n - 1].role = "user" /\ history[n - 1].id = msg[h].id

\* C21: whatever other handlers and clear commands of the same identity ran
\* while a handler was suspended, the history it hands to get_chat_response is
\* not empty and ends with the user message it appended itself, and the reply
\* it appends comes directly after that user message.
C21_ReplyFollowsOwnMessage ==
    [][\A h \in Handlers :
          /\ InvokesClient(h) => EndsWithOwnMessage(h)
          /\ StoresReply(h) => ReplyFollowsOwnMessage(h)]_vars

\* C21, for a handler during whose turn no other handler or command touched
\* the history of its identity: the same two conclusions.
C21_UndisturbedReplyFollowsOwnMessage ==
    [][\A h \in Handlers :
          msg[h].alone =>
              /\ InvokesClient(h) => EndsWithOwnMessage(h)
              /\ StoresReply(h) => ReplyFollowsOwnMessage(h)]_vars

\* C21 case: a handler is about to call get_chat_response while the history
\* of its identity is empty (a clear command ran while it was suspended).
C21_CallsWithEmptyHistory ==
    \E h \in Handlers :
        /\ pc[h] = "typing"
        /\ user_contexts[msg[h].author] = <<>>

====
